---- MODULE Spec2Model ----
(***************************************************************************)
(* A model of the sitemap watcher: the feed registry (feeds.json), the     *)
(* per-domain snapshot files, RSSManager.download_sitemap / add_feed /     *)
(* remove_feed and the notifiers that call them from the event loop.       *)
(*                                                                         *)
(* Strings are sequences of one-character strings, so that serialising a   *)
(* URL set and parsing it back are computed character by character.        *)
(***************************************************************************)
EXTENDS Integers, Sequences, FiniteSets, TLC

\* ------------------------------------------------------------------ bounds

\* calendar dates are 1..MaxDay
MaxDay == 2
\* coroutines of the event loop that call the manager
NumTasks == 2
\* manager calls (add_feed, remove_feed) started in one run
MaxCalls == 3

Dates == 1..MaxDay
Tasks == 1..NumTasks
NoDate == 0
NoTask == 0

\* ------------------------------------------------------------- characters

CharCode(c) ==
    CASE c = " " -> 32
      [] c = "&" -> 38
      [] c = ";" -> 59
      [] c = "<" -> 60
      [] c = ">" -> 62
      [] c = "a" -> 97
      [] c = "b" -> 98
      [] c = "c" -> 99
      [] c = "g" -> 103
      [] c = "k" -> 107
      [] c = "l" -> 108
      [] c = "m" -> 109
      [] c = "p" -> 112
      [] c = "t" -> 116
      [] c = "x" -> 120
      [] c = "y" -> 121
      [] c = "z" -> 122

\* Python's str ordering: lexicographic by code point, a prefix sorts first.
RECURSIVE StrLess(_, _)
StrLess(s, t) ==
    IF t = <<>> THEN FALSE
    ELSE IF s = <<>> THEN TRUE
    ELSE IF Head(s) = Head(t) THEN StrLess(Tail(s), Tail(t))
    ELSE CharCode(Head(s)) < CharCode(Head(t))

MinStr(S) == CHOOSE s \in S : \A t \in S \ {s} : StrLess(s, t)

\* sorted(urls)
RECURSIVE Sorted(_)
Sorted(S) ==
    IF S = {} THEN <<>>
    ELSE LET m == MinStr(S) IN <<m>> \o Sorted(S \ {m})

\* str.strip(): leading and trailing blanks removed
RECURSIVE LStrip(_)
LStrip(s) == IF s # <<>> /\ Head(s) = " " THEN LStrip(Tail(s)) ELSE s

RECURSIVE RStrip(_)
RStrip(s) ==
    IF s # <<>> /\ s[Len(s)] = " " THEN RStrip(SubSeq(s, 1, Len(s) - 1)) ELSE s

Strip(s) == RStrip(LStrip(s))

Range(q) == {q[i] : i \in 1..Len(q)}

\* ------------------------------------------------------------------- XML
\* An XML text is [root, ns, locs]: the name of the root element in lower
\* case ("malformed" when the text has no well-formed root at all), the
\* namespace its elements are in, and the raw character data of its loc
\* elements in document order (of url/loc under a urlset, of sitemap/loc
\* under a sitemapindex).

HasPrefix(s, p) == Len(s) >= Len(p) /\ SubSeq(s, 1, Len(p)) = p

Drop(s, n) == SubSeq(s, n + 1, Len(s))

\* Character data as the XML parser reads it: an entity reference is
\* replaced, a bare "<" or a "&" that starts no entity reference is a
\* syntax error.
RECURSIVE DecodeText(_)
DecodeText(raw) ==
    IF raw = <<>> THEN [ok |-> TRUE, text |-> <<>>]
    ELSE IF Head(raw) = "<" THEN [ok |-> FALSE, text |-> <<>>]
    ELSE IF Head(raw) = "&" THEN
        LET ent == IF HasPrefix(raw, <<"&", "a", "m", "p", ";">>)
                       THEN [n |-> 5, c |-> "&"]
                   ELSE IF HasPrefix(raw, <<"&", "l", "t", ";">>)
                       THEN [n |-> 4, c |-> "<"]
                   ELSE IF HasPrefix(raw, <<"&", "g", "t", ";">>)
                       THEN [n |-> 4, c |-> ">"]
                   ELSE [n |-> 0, c |-> "&"]
        IN  IF ent.n = 0 THEN [ok |-> FALSE, text |-> <<>>]
            ELSE LET rest == DecodeText(Drop(raw, ent.n))
                 IN  [ok |-> rest.ok, text |-> <<ent.c>> \o rest.text]
    ELSE LET rest == DecodeText(Tail(raw))
         IN  [ok |-> rest.ok, text |-> <<Head(raw)>> \o rest.text]

\* ET.fromstring(txt) succeeds
Parses(xml) ==
    /\ xml.root # "malformed"
    /\ \A i \in 1..Len(xml.locs) : DecodeText(xml.locs[i]).ok

\* "http://www.sitemaps.org/schemas/sitemap/0.9"
SitemapNs == "sitemap"

\* str.endswith
EndsWith(s, p) == Len(s) >= Len(p) /\ SubSeq(s, Len(s) - Len(p) + 1, Len(s)) = p

\* tag = root.tag.lower(); tag.endswith("urlset")
IsUrlset(xml) == EndsWith(xml.root, "urlset")

\* tag.endswith("sitemapindex")
IsSitemapIndex(xml) == EndsWith(xml.root, "sitemapindex")

\* root.findall(".//{ns}loc"), then "if loc.text: urls.add(loc.text.strip())";
\* when nothing was found, root.findall(".//loc"), which matches the elements
\* of a document that declares no namespace.
LocTexts(xml) ==
    LET texts == {DecodeText(xml.locs[i]).text : i \in 1..Len(xml.locs)} \ {<<>>}
        named == IF xml.ns = SitemapNs THEN {Strip(t) : t \in texts} ELSE {}
    IN  IF named # {} THEN named
        ELSE IF xml.ns = "none" THEN {Strip(t) : t \in texts}
        ELSE {}

\* RSSManager._extract_all_urls
ExtractAllUrls(xml) ==
    IF ~Parses(xml) THEN {}
    ELSE IF IsUrlset(xml) THEN LocTexts(xml)
    ELSE {}

\* RSSManager._build_urlset_xml: the loc bodies are the URLs as they are
BuildUrlsetXml(urls) ==
    [root |-> "urlset", ns |-> SitemapNs, locs |-> Sorted(urls)]

\* (variant) the difference is taken the other way round
ComparedBackwards(current_content, old_content) ==
    ExtractAllUrls(old_content) \ ExtractAllUrls(current_content)

\* RSSManager.compare_sitemaps
CompareSitemaps(current_content, old_content) ==
    ExtractAllUrls(current_content) \ ExtractAllUrls(old_content)

\* -------------------------------------------------------------- the web
\* Sitemap URLs the program requests, and the page URLs sitemaps list.

FeedX == <<"x">>
FeedY == <<"y">>
ChildK == <<"k">>
ChildM == <<"m">>

\* the feeds users subscribe to: two sitemaps of one host
FeedUrls == {FeedX, FeedY}
SitemapUrls == FeedUrls \cup {ChildK, ChildM}

Domains == {"host"}

\* urlparse(url).netloc
DomainOf(url) == "host"

MalformedXml == [root |-> "malformed", ns |-> "none", locs |-> <<>>]

HttpError == [ok |-> FALSE, xml |-> MalformedXml]

UrlsetPage(locs) ==
    [ok |-> TRUE, xml |-> [root |-> "urlset", ns |-> SitemapNs, locs |-> locs]]

IndexPage(locs) ==
    [ok |-> TRUE, xml |-> [root |-> "sitemapindex", ns |-> SitemapNs, locs |-> locs]]

\* What the servers answer at one moment: a response for every sitemap URL.
WebOne == [u \in SitemapUrls |-> UrlsetPage(<< <<"a">> >>)]

WebTwo == [u \in SitemapUrls |-> UrlsetPage(<< <<"a">>, <<" ", "b">> >>)]

\* a page URL with a query string, written with its entity reference
WebAmp ==
    [u \in SitemapUrls |->
        UrlsetPage(<< <<"a">>, <<"b">>, <<"a", "&", "a", "m", "p", ";", "b">> >>)]

\* every feed is an index of two child sitemaps
WebIndex ==
    [u \in SitemapUrls |->
        IF u \in FeedUrls THEN IndexPage(<<ChildK, ChildM>>)
        ELSE IF u = ChildK THEN UrlsetPage(<< <<"a">> >>)
        ELSE UrlsetPage(<< <<"b">> >>)]

\* timeout, connection failure or a non-2xx status everywhere
WebDown == [u \in SitemapUrls |-> HttpError]

Webs == {WebOne, WebTwo, WebAmp, WebIndex, WebDown}

\* requests.get(url, ...) followed by raise_for_status()
HttpGet(web, url) == IF url \in DOMAIN web THEN web[url] ELSE HttpError

\* the recursion's depth limit: "if depth > 3: return urls"
MaxDepth == 3

\* (variant) the limit is one level further down
TooDeepLater(depth) == depth > MaxDepth + 1

\* line 249, for an index read at this depth (the feed's document is at depth 0)
TooDeep(depth) == depth > MaxDepth

\* RSSManager._collect_urls_from_sitemap; the entries of an index are looked
\* up like the locs of a urlset, in the sitemap namespace and then without one
RECURSIVE CollectUrls(_, _, _)
CollectUrls(web, xml, depth) ==
    IF ~Parses(xml) THEN {}
    ELSE IF IsUrlset(xml) THEN LocTexts(xml)
    ELSE IF IsSitemapIndex(xml) THEN
        IF TooDeep(depth) THEN {}
        ELSE UNION { LET child == HttpGet(web, child_url)
                     IN  IF child.ok THEN CollectUrls(web, child.xml, depth + 1)
                         ELSE {}
                     : child_url \in LocTexts(xml) }
    ELSE {}

\* The child requests _collect_urls_from_sitemap makes (lines 251-258 and
\* 262-269), each with the level of the document it asks for, the document
\* of the top-level request being on level 1 (depth 0).
RECURSIVE Requested(_, _, _)
Requested(web, xml, depth) ==
    IF ~Parses(xml) THEN {}
    ELSE IF IsUrlset(xml) THEN {}
    ELSE IF IsSitemapIndex(xml) THEN
        IF TooDeep(depth) THEN {}
        ELSE UNION { LET child == HttpGet(web, child_url)
                     IN  {<<child_url, depth + 2>>} \cup
                         (IF child.ok THEN Requested(web, child.xml, depth + 1)
                          ELSE {})
                     : child_url \in LocTexts(xml) }
    ELSE {}

\* How many times _collect_urls_from_sitemap calls requests.get for the
\* entries of this document and of the documents below it: once for every
\* entry with text, in document order, an entry listed twice being asked for
\* twice (lines 251-258, or 262-269 for a document without namespace).
RECURSIVE NumRequests(_, _, _), EntryRequests(_, _, _, _)
NumRequests(web, xml, depth) ==
    IF ~Parses(xml) \/ IsUrlset(xml) \/ ~IsSitemapIndex(xml) THEN 0
    ELSE IF TooDeep(depth) \/ xml.ns \notin {SitemapNs, "none"} THEN 0
    ELSE EntryRequests(web, xml, depth, Len(xml.locs))

\* the requests for the first n entries of an index
EntryRequests(web, xml, depth, n) ==
    IF n = 0 THEN 0
    ELSE LET text == DecodeText(xml.locs[n]).text
             child == HttpGet(web, Strip(text))
         IN  EntryRequests(web, xml, depth, n - 1) +
             (IF text = <<>> THEN 0
              ELSE 1 + (IF child.ok THEN NumRequests(web, child.xml, depth + 1) ELSE 0))

\* ------------------------------------------------------- more of the web
\* Sites with nested indexes, failing children and documents that are no
\* sitemaps, for runs of a single handler.

ChildP == <<"p">>
ChildT == <<"t">>
ChildC == <<"c">>

FetchUrls == SitemapUrls \cup {ChildP, ChildT, ChildC}

\* a namespace that is not the protocol's, e.g. its https spelling
OtherNs == "https"

Namespaces == {SitemapNs, "none", OtherNs}

Page(root, ns, locs) == [ok |-> TRUE, xml |-> [root |-> root, ns |-> ns, locs |-> locs]]

\* a 200 response whose body is no well-formed XML
MalformedPage == [ok |-> TRUE, xml |-> MalformedXml]

\* the answers of one site: every feed URL serves top, the others as given
Site(top, k, m, p, t, c) ==
    [u \in FetchUrls |->
        IF u \in FeedUrls THEN top
        ELSE IF u = ChildK THEN k
        ELSE IF u = ChildM THEN m
        ELSE IF u = ChildP THEN p
        ELSE IF u = ChildT THEN t
        ELSE c]

\* sites whose feed is a single document
PlainWebs ==
    { Site(top, HttpError, HttpError, HttpError, HttpError, HttpError) :
        top \in { UrlsetPage(<< <<"a">> >>),
                  UrlsetPage(<< <<"a">>, <<"b">> >>),
                  UrlsetPage(<< <<"c">>, <<"a">>, <<"b">>, <<"a">> >>),
                  UrlsetPage(<< <<"a">>, <<"a", "&", "a", "m", "p", ";", "b">> >>),
                  UrlsetPage(<< <<"a", "&", "l", "t", ";", "b">> >>),
                  UrlsetPage(<< <<"b">>, <<"a", "&", "g", "t", ";", "b">> >>),
                  UrlsetPage(<< <<" ">>, <<"a">> >>),
                  Page("urlset", "none", << <<" ", "a">> >>),
                  Page("urlset", OtherNs, << <<"a">> >>),
                  Page("xurlset", "none", << <<"a">> >>),
                  Page("html", "none", << <<"a">> >>),
                  MalformedPage,
                  HttpError } }

\* sites whose feed is an index of the two children k and m
IndexWebs ==
    { Site(Page("sitemapindex", ns, <<ChildK, ChildM>>), k, m,
           HttpError, HttpError, HttpError) :
        ns \in Namespaces,
        k \in { UrlsetPage(<< <<"a">> >>),
                Page("urlset", "none", << <<"a">> >>),
                Page("urlset", OtherNs, << <<"a">> >>),
                MalformedPage,
                HttpError },
        m \in { UrlsetPage(<< <<"b">> >>),
                UrlsetPage(<< <<"a">>, <<"b">> >>),
                HttpError } }

\* feed -> k -> m -> p, all indexes, and what p lists
ChainWeb(p, t, c) ==
    Site(IndexPage(<<ChildK>>), IndexPage(<<ChildM>>), IndexPage(<<ChildP>>), p, t, c)

NestedWebs ==
    { \* a urlset on level 4
      ChainWeb(UrlsetPage(<< <<"a">> >>), HttpError, HttpError),
      \* a urlset on level 5
      ChainWeb(IndexPage(<<ChildT>>), UrlsetPage(<< <<"a">> >>), HttpError),
      \* an index on level 5, a urlset on level 6
      ChainWeb(IndexPage(<<ChildT>>), IndexPage(<<ChildC>>), UrlsetPage(<< <<"b">> >>)),
      \* a level-5 urlset next to a level-5 index
      ChainWeb(IndexPage(<<ChildT, ChildC>>), IndexPage(<<ChildC>>),
               UrlsetPage(<< <<"b">> >>)),
      \* a failing child on level 3 next to a sibling that answers
      Site(IndexPage(<<ChildK, ChildM>>), IndexPage(<<ChildP, ChildT>>),
           UrlsetPage(<< <<"b">> >>), HttpError, UrlsetPage(<< <<"a">> >>), HttpError),
      \* an index that lists itself
      Site(IndexPage(<<FeedX, FeedY>>), HttpError, HttpError, HttpError, HttpError,
           HttpError),
      \* an index that lists itself and a urlset
      Site(IndexPage(<<FeedX, ChildK>>), UrlsetPage(<< <<"a">> >>), HttpError, HttpError,
           HttpError, HttpError),
      \* two indexes that list each other, the second one a urlset as well
      Site(IndexPage(<<ChildK>>), IndexPage(<<FeedY, ChildM>>),
           UrlsetPage(<< <<"b">> >>), HttpError, HttpError, HttpError) }

FetchWebs == PlainWebs \cup IndexWebs \cup NestedWebs

\* ------------------------------------------------------------------ state

VARIABLES
    feeds,        \* config/feeds.json: the list of feed URLs
    last_update,  \* sitemaps/<domain>/last_update.txt: a date, NoDate if no file
    current,      \* sitemaps/<domain>/sitemap-current.xml
    latest,       \* sitemaps/<domain>/sitemap-latest.xml
    dated,        \* sitemaps/<domain>/<domain>_sitemap_<date>.xml, by date
    today,        \* the calendar date, datetime.now()
    pc,           \* where each coroutine is
    call,         \* the locals of each coroutine's manager call
    running,      \* the coroutine the event loop is running, NoTask when it is idle
    calls,        \* manager calls started so far
    fetched_ok,   \* history: feed URLs an add_feed call fetched over HTTP
    fetches,      \* history: per domain, the URL sets of the last two successful fetches
    rotations,    \* history: per domain and date, rotations done (counted up to 2)
    installed,    \* history: per domain, the files as the last completed rotation left them
    probe,        \* history: what the servers answered to the last fetch of a probed run
    sched         \* the locals of the coroutines that run a scheduled_task

vars == <<feeds, last_update, current, latest, dated, today, pc, call, running, calls,
          fetched_ok, fetches, rotations, installed, probe, sched>>

files == <<last_update, current, latest, dated>>
history == <<fetched_ok, fetches, rotations, installed, probe>>

\* a file is [exists, text]
Absent == [exists |-> FALSE, text |-> MalformedXml]
File(xml) == [exists |-> TRUE, text |-> xml]

\* a (success, message, dated_file, new_urls) tuple; dated_file is the date in
\* the export file's name, NoDate for None
Outcome(success, message, dated_file, new_urls) ==
    [success |-> success, message |-> message, dated_file |-> dated_file,
     new_urls |-> new_urls]

NoOutcome == Outcome(FALSE, "none", NoDate, {})

\* the persisted state of one domain
Store(d) ==
    [last_update |-> last_update[d], current |-> current[d], latest |-> latest[d],
     dated |-> dated[d]]

NoCall ==
    [op |-> "none", url |-> <<>>, feeds |-> <<>>, today |-> NoDate,
     requests |-> 0, http |-> "none", urls |-> {}, xml |-> MalformedXml, new_urls |-> {},
     before |-> [last_update |-> NoDate, current |-> Absent, latest |-> Absent,
                 dated |-> [x \in Dates |-> Absent]],
     feeds_before |-> <<>>,
     dl |-> NoOutcome, ret |-> NoOutcome, send |-> NoDate]

NoProbe == [seen |-> FALSE, web |-> WebDown]

\* kind is "none" for a coroutine that is a command handler; feeds and i are
\* the list and the position of scheduled_task's "for url in feeds"
NoSched == [kind |-> "none", feeds |-> <<>>, i |-> 0]

\* the store and the bookkeeping of a process that starts on an empty directory
FreshStore ==
    /\ feeds = <<>>
    /\ last_update = [d \in Domains |-> NoDate]
    /\ current = [d \in Domains |-> Absent]
    /\ latest = [d \in Domains |-> Absent]
    /\ dated = [d \in Domains |-> [x \in Dates |-> Absent]]
    /\ today = 1
    /\ call = [t \in Tasks |-> NoCall]
    /\ running = NoTask
    /\ calls = 0
    /\ fetched_ok = {}
    /\ fetches = [d \in Domains |-> <<>>]
    /\ rotations = [d \in Domains |-> [x \in Dates |-> 0]]
    /\ installed = [d \in Domains |->
                      [last_update |-> NoDate, current |-> Absent, latest |-> Absent]]
    /\ probe = NoProbe

Init ==
    /\ FreshStore
    /\ pc = [t \in Tasks |-> "idle"]
    /\ sched = [t \in Tasks |-> NoSched]

\* ------------------------------------------------------------- scheduling
\* The manager's methods are plain functions called from coroutines of one
\* event loop: a coroutine gives the loop to another one only where it awaits.

\* (variant) the HTTP request is awaited too
AwaitsInFetch(step) == step \in {"add_feed", "remove_feed", "fetch"}

\* the steps after which the running coroutine awaits
Awaits(step) == step \in {"add_feed", "remove_feed"}

CanRun(t) == running \in {NoTask, t}

\* a new handler coroutine takes the lowest free slot
FreeSlot(t) == pc[t] = "idle" /\ \A other \in Tasks : other < t => pc[other] # "idle"

Next_running(t, step) == IF Awaits(step) THEN NoTask ELSE t

\* RSSManager.get_feeds
GetFeeds == feeds

\* ------------------------------------------------------- download_sitemap

\* (variant) the date gate never closes
NeverUpdated(last_date, tdy) == FALSE

\* "if last_update_file.exists(): ... if last_date == today"
AlreadyUpdated(last_date, tdy) == last_date # NoDate /\ last_date = tdy

\* (variant) the early return reports success whether or not the export exists
GatedAlwaysOk(d, tdy) ==
    IF dated[d][tdy].exists /\ current[d].exists /\ latest[d].exists
    THEN Outcome(TRUE, "already updated, not sent", tdy,
                 CompareSitemaps(current[d].text, latest[d].text))
    ELSE Outcome(TRUE, "already updated", tdy, {})

\* the early return of a call on a date the domain was already updated
GatedOutcome(d, tdy) ==
    IF dated[d][tdy].exists /\ current[d].exists /\ latest[d].exists
    THEN Outcome(TRUE, "already updated, not sent", tdy,
                 CompareSitemaps(current[d].text, latest[d].text))
    ELSE Outcome(dated[d][tdy].exists, "already updated", tdy, {})

\* (variant) a gated call writes the export copy again when it is missing
DlGateRefreshing(t) ==
    /\ pc[t] = "dl_gate"
    /\ CanRun(t)
    /\ LET d == DomainOf(call[t].url)
           c == [call[t] EXCEPT !.today = today, !.before = Store(d)]
       IN  IF AlreadyUpdated(last_update[d], today)
           THEN /\ call' = [call EXCEPT ![t] = [c EXCEPT !.dl = GatedOutcome(d, today)]]
                /\ pc' = [pc EXCEPT ![t] = "dl_done"]
                /\ dated' = IF current[d].exists /\ ~dated[d][today].exists
                            THEN [dated EXCEPT ![d][today] = current[d]]
                            ELSE dated
           ELSE /\ call' = [call EXCEPT ![t] = c]
                /\ pc' = [pc EXCEPT ![t] = "dl_fetch"]
                /\ UNCHANGED dated
    /\ running' = Next_running(t, "gate")
    /\ UNCHANGED <<feeds, last_update, current, latest, today, sched, calls, history>>

\* lines 47-85: the paths, today's date, the date gate
DlGate(t) ==
    /\ pc[t] = "dl_gate"
    /\ CanRun(t)
    /\ LET d == DomainOf(call[t].url)
           c == [call[t] EXCEPT !.today = today, !.before = Store(d)]
       IN  IF AlreadyUpdated(last_update[d], today)
           THEN /\ call' = [call EXCEPT ![t] = [c EXCEPT !.dl = GatedOutcome(d, today)]]
                /\ pc' = [pc EXCEPT ![t] = "dl_done"]
           ELSE /\ call' = [call EXCEPT ![t] = c]
                /\ pc' = [pc EXCEPT ![t] = "dl_fetch"]
    /\ running' = Next_running(t, "gate")
    /\ UNCHANGED <<feeds, files, today, sched, calls, history>>

\* (variant) the failure carries no message
DownloadFailedSilently == Outcome(FALSE, "", NoDate, {})

\* line 111: the outcome when the top-level request raises
DownloadFailed == Outcome(FALSE, "download failed", NoDate, {})

\* line 113: the outcome when anything else raises
SaveFailed == Outcome(FALSE, "save failed", NoDate, {})

\* the last two entries of a history
LastTwo(q) == IF Len(q) > 2 THEN SubSeq(q, Len(q) - 1, Len(q)) ELSE q

\* (variant) a child request that fails fails the whole fetch
FetchedAll(web, url) ==
    /\ HttpGet(web, url).ok
    /\ \A r \in Requested(web, HttpGet(web, url).xml, 0) : HttpGet(web, r[1]).ok

\* lines 90-91: requests.get(url) returned and raise_for_status() passed
Fetched(web, url) == HttpGet(web, url).ok

\* lines 87-94 and 110-111: the request, the expansion, the serialisation,
\* when the servers answer as web
DlFetchWith(t, web) ==
    /\ pc[t] = "dl_fetch"
    /\ CanRun(t)
    /\ LET url == call[t].url
           d == DomainOf(url)
           response == HttpGet(web, url)
           combined_urls == CollectUrls(web, response.xml, 0)
       IN  IF Fetched(web, url)
           THEN /\ call' = [call EXCEPT ![t].requests = 1,
                                        ![t].http = "ok",
                                        ![t].urls = combined_urls,
                                        ![t].xml = BuildUrlsetXml(combined_urls)]
                /\ pc' = [pc EXCEPT ![t] = "dl_rotate"]
                /\ fetched_ok' = fetched_ok \cup {url}
                /\ fetches' = [fetches EXCEPT ![d] = LastTwo(Append(@, combined_urls))]
           ELSE /\ call' = [call EXCEPT ![t].requests = 1,
                                        ![t].http = "error",
                                        ![t].dl = DownloadFailed]
                /\ pc' = [pc EXCEPT ![t] = "dl_done"]
                /\ UNCHANGED <<fetched_ok, fetches>>
    /\ running' = Next_running(t, "fetch")
    /\ UNCHANGED <<feeds, files, today, sched, calls, rotations, installed>>

DlFetch(t) ==
    /\ \E web \in Webs : DlFetchWith(t, web)
    /\ UNCHANGED probe

\* the same step of a probed run: the site is any of FetchWebs and is recorded
DlFetchProbed(t) ==
    \E web \in FetchWebs :
        /\ DlFetchWith(t, web)
        /\ probe' = [seen |-> TRUE, web |-> web]

\* the URLs reported as new when a current snapshot exists (line 99)
NewUrls(combined_xml, old_content) == CompareSitemaps(combined_xml, old_content)

\* (variant) the old current is dropped instead of kept as latest
NotReplaced(current_file, latest_file) == latest_file

\* line 100: current_file.replace(latest_file) leaves the old current as latest
Replaced(current_file, latest_file) == current_file

\* lines 96-100: diff against the current snapshot, which becomes the latest
DlRotate(t) ==
    /\ pc[t] = "dl_rotate"
    /\ CanRun(t)
    /\ LET d == DomainOf(call[t].url)
       IN  IF current[d].exists
           THEN /\ call' = [call EXCEPT ![t].new_urls = NewUrls(call[t].xml, current[d].text)]
                /\ latest' = [latest EXCEPT ![d] = Replaced(current[d], latest[d])]
                /\ current' = [current EXCEPT ![d] = Absent]
           ELSE /\ call' = [call EXCEPT ![t].new_urls = {}]
                /\ UNCHANGED <<current, latest>>
    /\ pc' = [pc EXCEPT ![t] = "dl_write_current"]
    /\ running' = Next_running(t, "rotate")
    /\ UNCHANGED <<feeds, last_update, dated, today, sched, calls, history>>

\* line 102: current_file.write_text(combined_xml)
DlWriteCurrent(t) ==
    /\ pc[t] = "dl_write_current"
    /\ CanRun(t)
    /\ LET d == DomainOf(call[t].url)
       IN  /\ current' = [current EXCEPT ![d] = File(call[t].xml)]
           /\ rotations' = [rotations EXCEPT ![d][call[t].today] = IF @ < 2 THEN @ + 1 ELSE @]
    /\ pc' = [pc EXCEPT ![t] = "dl_write_dated"]
    /\ running' = Next_running(t, "write_current")
    /\ UNCHANGED <<feeds, last_update, latest, dated, today, sched, call, calls,
                   fetched_ok, fetches, installed, probe>>

\* line 103: dated_file.write_text(combined_xml)
DlWriteDated(t) ==
    /\ pc[t] = "dl_write_dated"
    /\ CanRun(t)
    /\ LET d == DomainOf(call[t].url)
       IN  dated' = [dated EXCEPT ![d][call[t].today] = File(call[t].xml)]
    /\ pc' = [pc EXCEPT ![t] = "dl_write_date"]
    /\ running' = Next_running(t, "write_dated")
    /\ UNCHANGED <<feeds, last_update, current, latest, today, sched, call, calls, history>>

\* lines 105-108: last_update_file.write_text(today) and the return
DlWriteDate(t) ==
    /\ pc[t] = "dl_write_date"
    /\ CanRun(t)
    /\ LET d == DomainOf(call[t].url)
       IN  /\ last_update' = [last_update EXCEPT ![d] = call[t].today]
           /\ installed' = [installed EXCEPT ![d] =
                              [last_update |-> call[t].today, current |-> current[d],
                               latest |-> latest[d]]]
    /\ call' = [call EXCEPT ![t].dl = Outcome(TRUE, "", call[t].today, call[t].new_urls)]
    /\ pc' = [pc EXCEPT ![t] = "dl_done"]
    /\ running' = Next_running(t, "write_date")
    /\ UNCHANGED <<feeds, current, latest, dated, today, sched, calls, fetched_ok,
                   fetches, rotations, probe>>

\* --------------------------------------------------------------- add_feed

\* lines 124-131 and 142: read the registry, then download in either branch
AddFeed(t, url) ==
    /\ FreeSlot(t)
    /\ CanRun(t)
    /\ calls < MaxCalls
    /\ call' = [call EXCEPT ![t] = [NoCall EXCEPT !.op = "add", !.url = url,
                                                  !.feeds = GetFeeds,
                                                  !.feeds_before = feeds]]
    /\ pc' = [pc EXCEPT ![t] = "dl_gate"]
    /\ running' = Next_running(t, "get_feeds")
    /\ calls' = calls + 1
    /\ UNCHANGED <<feeds, files, today, sched, history>>

\* (variant) the membership test is missing
AppendsKnown(url, feed_list, dl) == dl.success

\* (variant) the download's outcome is not looked at
AppendsUnchecked(url, feed_list, dl) == url \notin Range(feed_list)

\* "if url not in feeds" followed by the download's success: the URL is appended
Appends(url, feed_list, dl) == dl.success /\ url \notin Range(feed_list)

\* (variant) add_feed hands a failed download's outcome through as it is
AddFeedReturnPassing(t) ==
    /\ pc[t] = "dl_done"
    /\ call[t].op = "add"
    /\ CanRun(t)
    /\ LET url == call[t].url
           dl == call[t].dl
           known == url \in Range(call[t].feeds)
       IN  /\ feeds' = IF Appends(url, call[t].feeds, dl)
                       THEN Append(call[t].feeds, url) ELSE feeds
           /\ call' = [call EXCEPT ![t].ret =
                         IF ~dl.success THEN dl
                         ELSE IF known
                              THEN Outcome(TRUE, "existing feed updated", dl.dated_file,
                                           dl.new_urls)
                              ELSE Outcome(TRUE, "", dl.dated_file, dl.new_urls)]
    /\ pc' = [pc EXCEPT ![t] = "af_done"]
    /\ running' = Next_running(t, "append")
    /\ UNCHANGED <<files, today, sched, calls, history>>

\* lines 129-145: what add_feed does with the download's outcome
AddFeedReturn(t) ==
    /\ pc[t] = "dl_done"
    /\ call[t].op = "add"
    /\ CanRun(t)
    /\ LET url == call[t].url
           dl == call[t].dl
           known == url \in Range(call[t].feeds)
       IN  /\ feeds' = IF Appends(url, call[t].feeds, dl)
                       THEN Append(call[t].feeds, url) ELSE feeds
           /\ call' = [call EXCEPT ![t].ret =
                         IF ~dl.success THEN Outcome(FALSE, dl.message, NoDate, {})
                         ELSE IF known
                              THEN Outcome(TRUE, "existing feed updated", dl.dated_file,
                                           dl.new_urls)
                              ELSE Outcome(TRUE, "", dl.dated_file, dl.new_urls)]
    /\ pc' = [pc EXCEPT ![t] = "af_done"]
    /\ running' = Next_running(t, "append")
    /\ UNCHANGED <<files, today, sched, calls, history>>

\* the caller has the result and awaits its first send
AwaitSend(t) ==
    /\ pc[t] = "af_done"
    /\ sched[t].kind = "none"
    /\ CanRun(t)
    /\ call' = [call EXCEPT ![t] =
                  [NoCall EXCEPT !.op = "add", !.url = call[t].url,
                                 !.send = IF call[t].ret.success
                                          THEN call[t].ret.dated_file ELSE NoDate]]
    /\ pc' = [pc EXCEPT ![t] = "notify"]
    /\ running' = Next_running(t, "add_feed")
    /\ UNCHANGED <<feeds, files, today, sched, calls, history>>

\* the notifier sends the export file and may unlink it
Notify(t, unlink) ==
    /\ pc[t] = "notify"
    /\ CanRun(t)
    /\ LET d == DomainOf(call[t].url)
           file == call[t].send
           sends == file # NoDate /\ dated[d][file].exists
       IN  /\ unlink => sends
           /\ dated' = IF unlink THEN [dated EXCEPT ![d][file] = Absent] ELSE dated
    /\ call' = [call EXCEPT ![t] = NoCall]
    /\ pc' = [pc EXCEPT ![t] = "idle"]
    /\ running' = NoTask
    /\ UNCHANGED <<feeds, last_update, current, latest, today, sched, calls, history>>

\* ------------------------------------------------------------ remove_feed

\* list.remove(x): the first occurrence goes
RECURSIVE RemoveFirst(_, _)
RemoveFirst(q, x) ==
    IF q = <<>> THEN <<>>
    ELSE IF Head(q) = x THEN Tail(q)
    ELSE <<Head(q)>> \o RemoveFirst(Tail(q), x)

\* lines 160-162
RemoveFeed(t, url) ==
    /\ FreeSlot(t)
    /\ CanRun(t)
    /\ calls < MaxCalls
    /\ call' = [call EXCEPT ![t] = [NoCall EXCEPT !.op = "remove", !.url = url,
                                                  !.feeds = GetFeeds,
                                                  !.feeds_before = feeds]]
    /\ pc' = [pc EXCEPT ![t] = "rm_check"]
    /\ running' = Next_running(t, "get_feeds")
    /\ calls' = calls + 1
    /\ UNCHANGED <<feeds, files, today, sched, history>>

\* (variant) feeds.pop() in place of feeds.remove(url)
RemovedLast(feed_list, url) == SubSeq(feed_list, 1, Len(feed_list) - 1)

\* the list remove_feed writes back (lines 168-170)
Removed(feed_list, url) == RemoveFirst(feed_list, url)

\* (variant) removing a feed also deletes the snapshot of its domain
RemoveFeedPurging(t) ==
    /\ pc[t] = "rm_check"
    /\ CanRun(t)
    /\ LET url == call[t].url
       IN  IF url \notin Range(call[t].feeds)
           THEN /\ call' = [call EXCEPT ![t].ret = Outcome(FALSE, "not subscribed", NoDate, {})]
                /\ UNCHANGED <<feeds, current>>
           ELSE /\ feeds' = Removed(call[t].feeds, url)
                /\ current' = [current EXCEPT ![DomainOf(url)] = Absent]
                /\ call' = [call EXCEPT ![t].ret = Outcome(TRUE, "", NoDate, {})]
    /\ pc' = [pc EXCEPT ![t] = "rm_done"]
    /\ running' = Next_running(t, "write_feeds")
    /\ UNCHANGED <<last_update, latest, dated, today, sched, calls, history>>

\* lines 164-172
RemoveFeedWrite(t) ==
    /\ pc[t] = "rm_check"
    /\ CanRun(t)
    /\ LET url == call[t].url
       IN  IF url \notin Range(call[t].feeds)
           THEN /\ call' = [call EXCEPT ![t].ret = Outcome(FALSE, "not subscribed", NoDate, {})]
                /\ UNCHANGED feeds
           ELSE /\ feeds' = Removed(call[t].feeds, url)
                /\ call' = [call EXCEPT ![t].ret = Outcome(TRUE, "", NoDate, {})]
    /\ pc' = [pc EXCEPT ![t] = "rm_done"]
    /\ running' = Next_running(t, "write_feeds")
    /\ UNCHANGED <<files, today, sched, calls, history>>

\* the caller has the result and awaits its reply being sent
RemoveFeedReturn(t) ==
    /\ pc[t] = "rm_done"
    /\ CanRun(t)
    /\ call' = [call EXCEPT ![t] = NoCall]
    /\ pc' = [pc EXCEPT ![t] = "idle"]
    /\ running' = Next_running(t, "remove_feed")
    /\ UNCHANGED <<feeds, files, today, sched, calls, history>>

\* ------------------------------------------------------------------ time

\* midnight passes
Tick ==
    /\ today < MaxDay
    /\ today' = today + 1
    /\ UNCHANGED <<feeds, files, pc, call, running, calls, history, sched>>

Next ==
    \/ \E t \in Tasks, url \in FeedUrls : AddFeed(t, url)
    \/ \E t \in Tasks : DlGate(t)
    \/ \E t \in Tasks : DlFetch(t)
    \/ \E t \in Tasks : DlRotate(t)
    \/ \E t \in Tasks : DlWriteCurrent(t)
    \/ \E t \in Tasks : DlWriteDated(t)
    \/ \E t \in Tasks : DlWriteDate(t)
    \/ \E t \in Tasks : AddFeedReturn(t)
    \/ \E t \in Tasks : AwaitSend(t)
    \/ \E t \in Tasks, unlink \in BOOLEAN : Notify(t, unlink)
    \/ \E t \in Tasks, url \in FeedUrls : RemoveFeed(t, url)
    \/ \E t \in Tasks : RemoveFeedWrite(t)
    \/ \E t \in Tasks : RemoveFeedReturn(t)
    \/ Tick

Spec == Init /\ [][Next]_vars

\* ----------------------------------------------------------------- faults

RotationSteps == {"dl_rotate", "dl_write_current", "dl_write_dated", "dl_write_date"}

\* a file operation of lines 100-105 raises (disk full, permissions): the
\* file is left as it was and "except Exception" returns the failure
WriteFails(t) ==
    /\ pc[t] \in RotationSteps
    /\ pc[t] = "dl_rotate" => current[DomainOf(call[t].url)].exists
    /\ CanRun(t)
    /\ call' = [call EXCEPT ![t].dl = SaveFailed]
    /\ pc' = [pc EXCEPT ![t] = "dl_done"]
    /\ running' = Next_running(t, "except")
    /\ UNCHANGED <<feeds, files, today, sched, calls, history>>

\* the process is killed and started again: the files stay, the coroutines go
Crash ==
    /\ \E t \in Tasks : pc[t] # "idle"
    /\ pc' = [t \in Tasks |-> "idle"]
    /\ call' = [t \in Tasks |-> NoCall]
    /\ running' = NoTask
    /\ UNCHANGED <<feeds, files, today, sched, calls, history>>

NextFault ==
    \/ Next
    \/ \E t \in Tasks : WriteFails(t)
    \/ Crash

SpecFault == Init /\ [][NextFault]_vars

\* ------------------------------------------------------------ probed runs
\* One handler at a time calls add_feed, against any of the sites of FetchWebs.

NextFetch ==
    \/ AddFeed(1, FeedX)
    \/ DlGate(1)
    \/ DlFetchProbed(1)
    \/ DlRotate(1)
    \/ DlWriteCurrent(1)
    \/ DlWriteDated(1)
    \/ DlWriteDate(1)
    \/ AddFeedReturn(1)
    \/ AwaitSend(1)
    \/ \E unlink \in BOOLEAN : Notify(1, unlink)
    \/ Tick

SpecFetch == Init /\ [][NextFetch]_vars

\* ------------------------------------------------------------- scheduler
\* scheduled_task of apps/telegram_bot.py and of apps/discord_bot.py: a
\* coroutine of the same event loop that walks the registry once per pass.

SchedulerKinds == {"telegram", "discord"}

Scheduler(t) == sched[t].kind # "none"

\* the name asyncio is bound in the module of the task: telegram_bot.py
\* imports it, the imports of discord_bot.py do not
HasAsyncio(kind) == kind = "telegram"

\* "await asyncio.sleep(...)": the coroutine sleeps, or the name lookup raises
Sleep(t, asleep, raised) ==
    IF HasAsyncio(sched[t].kind)
    THEN /\ pc' = [pc EXCEPT ![t] = asleep]
         /\ running' = NoTask
    ELSE /\ pc' = [pc EXCEPT ![t] = raised]
         /\ running' = IF raised = "s_dead" THEN NoTask ELSE t

\* the task's first await is over; it returns when it has no bot or channel
SchedStart(t, ready) ==
    /\ pc[t] = "s_start"
    /\ CanRun(t)
    /\ pc' = [pc EXCEPT ![t] = IF ready THEN "s_pass" ELSE "s_returned"]
    /\ running' = IF ready THEN t ELSE NoTask
    /\ UNCHANGED <<feeds, files, today, sched, call, calls, history>>

\* "while True: try: feeds = rss_manager.get_feeds()"
SchedGetFeeds(t) ==
    /\ pc[t] = "s_pass"
    /\ CanRun(t)
    /\ sched' = [sched EXCEPT ![t].feeds = GetFeeds, ![t].i = 1]
    /\ pc' = [pc EXCEPT ![t] = "s_feed"]
    /\ running' = t
    /\ UNCHANGED <<feeds, files, today, call, calls, history>>

\* "for url in feeds: ... rss_manager.add_feed(url)", up to add_feed's own
\* get_feeds
SchedAddFeed(t) ==
    /\ pc[t] = "s_feed"
    /\ sched[t].i <= Len(sched[t].feeds)
    /\ CanRun(t)
    /\ call' = [call EXCEPT ![t] = [NoCall EXCEPT !.op = "add",
                                                  !.url = sched[t].feeds[sched[t].i],
                                                  !.feeds = GetFeeds,
                                                  !.feeds_before = feeds]]
    /\ pc' = [pc EXCEPT ![t] = "dl_gate"]
    /\ running' = t
    /\ UNCHANGED <<feeds, files, today, sched, calls, history>>

\* "if success and dated_file.exists():" the task awaits the first send, else
\* it goes on to the next feed
SchedAfterAdd(t) ==
    /\ pc[t] = "af_done"
    /\ Scheduler(t)
    /\ CanRun(t)
    /\ LET ret == call[t].ret
           sends == /\ ret.success
                    /\ ret.dated_file # NoDate
                    /\ dated[DomainOf(call[t].url)][ret.dated_file].exists
       IN  /\ call' = [call EXCEPT ![t] =
                         IF sends
                         THEN [NoCall EXCEPT !.op = "add", !.url = call[t].url,
                                             !.send = ret.dated_file]
                         ELSE NoCall]
           /\ pc' = [pc EXCEPT ![t] = IF sends THEN "s_send" ELSE "s_feed"]
           /\ running' = IF sends THEN NoTask ELSE t
    /\ sched' = [sched EXCEPT ![t].i = sched[t].i + 1]
    /\ UNCHANGED <<feeds, files, today, calls, history>>

\* the sends of one feed: the export file is sent and may be unlinked, and any
\* of the sends may raise. The Discord task opens the file for its second send
\* and unlinks it right after it.
SchedSend(t, unlink, raises) ==
    /\ pc[t] = "s_send"
    /\ CanRun(t)
    /\ LET d == DomainOf(call[t].url)
           file == call[t].send
       IN  /\ unlink => dated[d][file].exists
           /\ (sched[t].kind = "discord" /\ ~unlink) => raises
           /\ dated' = IF unlink THEN [dated EXCEPT ![d][file] = Absent] ELSE dated
    /\ call' = [call EXCEPT ![t] = NoCall]
    /\ pc' = [pc EXCEPT ![t] = IF raises THEN "s_except" ELSE "s_feed"]
    /\ running' = t
    /\ UNCHANGED <<feeds, last_update, current, latest, today, sched, calls, history>>

\* the for loop is over: "await asyncio.sleep(10)"
SchedEndOfFeeds(t) ==
    /\ pc[t] = "s_feed"
    /\ sched[t].i > Len(sched[t].feeds)
    /\ CanRun(t)
    /\ Sleep(t, "s_sleep10", "s_except")
    /\ sched' = [sched EXCEPT ![t].feeds = <<>>, ![t].i = 0]
    /\ UNCHANGED <<feeds, files, today, call, calls, history>>

\* the ten seconds are over: the task awaits the send of the summary
SchedWake10(t) ==
    /\ pc[t] = "s_sleep10"
    /\ CanRun(t)
    /\ pc' = [pc EXCEPT ![t] = "s_summary"]
    /\ running' = NoTask
    /\ UNCHANGED <<feeds, files, today, sched, call, calls, history>>

\* the summary is sent or its send raises; then "await asyncio.sleep(3600)"
SchedSummary(t, raises) ==
    /\ pc[t] = "s_summary"
    /\ CanRun(t)
    /\ IF raises
       THEN /\ pc' = [pc EXCEPT ![t] = "s_except"]
            /\ running' = t
       ELSE Sleep(t, "s_sleep3600", "s_except")
    /\ UNCHANGED <<feeds, files, today, sched, call, calls, history>>

\* the hour is over: "while True" starts the next pass
SchedWakeHour(t) ==
    /\ pc[t] = "s_sleep3600"
    /\ CanRun(t)
    /\ pc' = [pc EXCEPT ![t] = "s_pass"]
    /\ running' = t
    /\ UNCHANGED <<feeds, files, today, sched, call, calls, history>>

\* "except Exception: await asyncio.sleep(60)": an exception raised in the
\* handler itself leaves the coroutine
SchedExcept(t) ==
    /\ pc[t] = "s_except"
    /\ CanRun(t)
    /\ Sleep(t, "s_sleep60", "s_dead")
    /\ sched' = [sched EXCEPT ![t].feeds = <<>>, ![t].i = 0]
    /\ UNCHANGED <<feeds, files, today, call, calls, history>>

\* the minute is over: "while True" starts the next pass
SchedWakeBackoff(t) ==
    /\ pc[t] = "s_sleep60"
    /\ CanRun(t)
    /\ pc' = [pc EXCEPT ![t] = "s_pass"]
    /\ running' = t
    /\ UNCHANGED <<feeds, files, today, sched, call, calls, history>>

\* the process starts one scheduled_task, in the first slot, next to the
\* command handlers
InitSched ==
    /\ FreshStore
    /\ pc = [t \in Tasks |-> IF t = 1 THEN "s_start" ELSE "idle"]
    /\ \E kind \in SchedulerKinds :
           sched = [t \in Tasks |-> IF t = 1 THEN [NoSched EXCEPT !.kind = kind]
                                     ELSE NoSched]

NextSched ==
    \/ Next
    \/ \E t \in Tasks, ready \in BOOLEAN : SchedStart(t, ready)
    \/ \E t \in Tasks : SchedGetFeeds(t)
    \/ \E t \in Tasks : SchedAddFeed(t)
    \/ \E t \in Tasks : SchedAfterAdd(t)
    \/ \E t \in Tasks, unlink \in BOOLEAN, raises \in BOOLEAN : SchedSend(t, unlink, raises)
    \/ \E t \in Tasks : SchedEndOfFeeds(t)
    \/ \E t \in Tasks : SchedWake10(t)
    \/ \E t \in Tasks, raises \in BOOLEAN : SchedSummary(t, raises)
    \/ \E t \in Tasks : SchedWakeHour(t)
    \/ \E t \in Tasks : SchedExcept(t)
    \/ \E t \in Tasks : SchedWakeBackoff(t)

SpecSched == InitSched /\ [][NextSched]_vars

\* what the event loop does for a coroutine that is ready: it resumes it
Resume(t) ==
    \/ DlGate(t) \/ DlFetch(t) \/ DlRotate(t) \/ DlWriteCurrent(t)
    \/ DlWriteDated(t) \/ DlWriteDate(t) \/ AddFeedReturn(t) \/ AwaitSend(t)
    \/ \E unlink \in BOOLEAN : Notify(t, unlink)
    \/ RemoveFeedWrite(t) \/ RemoveFeedReturn(t)
    \/ \E ready \in BOOLEAN : SchedStart(t, ready)
    \/ SchedGetFeeds(t) \/ SchedAddFeed(t) \/ SchedAfterAdd(t)
    \/ \E unlink \in BOOLEAN, raises \in BOOLEAN : SchedSend(t, unlink, raises)
    \/ SchedEndOfFeeds(t) \/ SchedWake10(t)
    \/ \E raises \in BOOLEAN : SchedSummary(t, raises)
    \/ SchedWakeHour(t) \/ SchedExcept(t) \/ SchedWakeBackoff(t)

\* every coroutine that can run is run, every timer that is due fires
SpecSchedFair == SpecSched /\ \A t \in Tasks : WF_vars(Resume(t))

\* ================================================================= claims

Dom(t) == DomainOf(call[t].url)

\* the call found the domain already updated on its date
Gated(t) == call[t].before.last_update = call[t].today

InRotation(d) == \E t \in Tasks : pc[t] \in RotationSteps /\ Dom(t) = d

\* C1: after any sequence of add_feed and remove_feed calls the persisted
\* feed list never contains the same URL twice.
C1_NoDuplicateFeeds ==
    \A i, j \in 1..Len(feeds) : feeds[i] = feeds[j] => i = j

\* an add of a URL that is already listed has returned, next to another entry
C1_Witness ==
    \E t \in Tasks :
        /\ pc[t] = "af_done"
        /\ call[t].ret.success
        /\ call[t].url \in Range(call[t].feeds)
        /\ Len(feeds) >= 2

\* C2 as stated: a second process() call on the same date issues no HTTP
\* request and returns diff(current, previous) of the persisted pair, whether
\* the export file was kept or deleted in between.
C2_SameDayReturnsDiff ==
    \A t \in Tasks :
        (/\ pc[t] = "dl_done"
         /\ Gated(t)
         /\ current[Dom(t)].exists
         /\ latest[Dom(t)].exists)
        => /\ call[t].requests = 0
           /\ call[t].dl.new_urls =
                CompareSitemaps(current[Dom(t)].text, latest[Dom(t)].text)

\* C2 amended: a second process() call on the same date issues no HTTP
\* request; it returns diff(current, previous) when current, previous and
\* that date's export file all exist, and no new URLs otherwise.
C2_SameDayNoRequest ==
    \A t \in Tasks :
        (pc[t] = "dl_done" /\ Gated(t))
        => /\ call[t].requests = 0
           /\ call[t].dl.new_urls =
                IF /\ dated[Dom(t)][call[t].today].exists
                   /\ current[Dom(t)].exists
                   /\ latest[Dom(t)].exists
                THEN CompareSitemaps(current[Dom(t)].text, latest[Dom(t)].text)
                ELSE {}

\* a same-day call returned after the notifier deleted the export file,
\* with a persisted pair whose diff is not empty
C2_Witness ==
    \E t \in Tasks :
        /\ pc[t] = "dl_done"
        /\ Gated(t)
        /\ current[Dom(t)].exists
        /\ latest[Dom(t)].exists
        /\ ~dated[Dom(t)][call[t].today].exists
        /\ CompareSitemaps(current[Dom(t)].text, latest[Dom(t)].text) # {}

\* C3: a due process() call whose fetch succeeds returns success, an empty
\* message, its date's export file, and as new_urls the fetched URL set minus
\* the URL set that was current before the call (nothing when there was no
\* current snapshot).
C3_DueReturnsDifference ==
    \A t \in Tasks :
        (pc[t] = "dl_done" /\ ~Gated(t) /\ call[t].http = "ok")
        => call[t].dl =
             Outcome(TRUE, "", call[t].today,
                     IF call[t].before.current.exists
                     THEN call[t].urls \ fetches[Dom(t)][Len(fetches[Dom(t)]) - 1]
                     ELSE {})

\* outside a rotation the two snapshots are the serialisations of the last
\* two successfully fetched URL sets
C4_Inv ==
    \A d \in Domains :
        ~InRotation(d) =>
            /\ current[d] =
                 IF fetches[d] = <<>> THEN Absent
                 ELSE File(BuildUrlsetXml(fetches[d][Len(fetches[d])]))
            /\ latest[d] =
                 IF Len(fetches[d]) < 2 THEN Absent
                 ELSE File(BuildUrlsetXml(fetches[d][1]))

\* the latest file changes only in the replace step of a call that has fetched
C4_Step ==
    \A d \in Domains :
        latest'[d] # latest[d] =>
            \E t \in Tasks :
                /\ Dom(t) = d
                /\ pc[t] = "dl_rotate"
                /\ call[t].http = "ok"
                /\ pc'[t] = "dl_write_current"

\* C4: when no rotation is under way, the current snapshot is the content of
\* the domain's most recent successful fetch and the previous snapshot that
\* of the one before it (absent while there were fewer than two); the
\* previous snapshot changes only in the step of a call that has fetched and
\* goes on to write the new current snapshot.
C4_Generations == []C4_Inv /\ [][C4_Step]_vars

\* a second, different generation has been installed over a first one
C4_Witness ==
    \E d \in Domains :
        /\ ~InRotation(d)
        /\ Len(fetches[d]) = 2
        /\ fetches[d][1] # fetches[d][2]
        /\ latest[d].exists

\* C5: the rotation never partially applies: whenever no rotation is under
\* way (also after a failed write or a crash), the domain's files are those
\* of the last completely installed generation.
C5_RotationAtomic ==
    \A d \in Domains :
        ~InRotation(d) =>
            [last_update |-> last_update[d], current |-> current[d],
             latest |-> latest[d]] = installed[d]

\* C6: a due process() call whose top-level request fails returns
\* success=false, a non-empty message, no export file and no new URLs, and
\* leaves the domain's date marker, snapshots and export copies unchanged.
C6_FailedFetchChangesNothing ==
    \A t \in Tasks :
        (pc[t] = "dl_done" /\ call[t].http = "error")
        => /\ ~call[t].dl.success
           /\ call[t].dl.message # ""
           /\ call[t].dl.dated_file = NoDate
           /\ call[t].dl.new_urls = {}
           /\ Store(Dom(t)) = call[t].before

\* a request failed for a domain that has snapshots
C6_Witness ==
    \E t \in Tasks :
        /\ pc[t] = "dl_done"
        /\ call[t].http = "error"
        /\ call[t].before.current.exists

\* a failed add_feed of an unlisted URL has left the registry as it was
C7_Inv ==
    \A t \in Tasks :
        (/\ pc[t] = "af_done"
         /\ call[t].url \notin Range(call[t].feeds)
         /\ ~call[t].dl.success)
        => /\ ~call[t].ret.success
           /\ feeds = call[t].feeds_before
           /\ call[t].url \notin Range(feeds)

\* a URL enters the registry only in the return of a successful add_feed for it
C7_Step ==
    \A u \in FeedUrls :
        (u \notin Range(feeds) /\ u \in Range(feeds')) =>
            \E t \in Tasks :
                /\ pc[t] = "dl_done"
                /\ call[t].url = u
                /\ pc'[t] = "af_done"
                /\ call'[t].ret.success

\* C7: add_feed of a URL that is not listed, whose download fails, returns
\* success=false and leaves the registry as it was; a URL enters the registry
\* only in the return of an add_feed for it that succeeds.
C7_FailedAddNotListed == []C7_Inv /\ [][C7_Step]_vars

\* add_feed of an unlisted URL has returned a failure
C7_Witness ==
    \E t \in Tasks :
        /\ pc[t] = "af_done"
        /\ call[t].url \notin Range(call[t].feeds)
        /\ ~call[t].dl.success
        /\ ~call[t].ret.success

\* C8: every URL in the registry was fetched over HTTP successfully during
\* an add_feed call for that URL.
C8_ListedWereFetched ==
    \A i \in 1..Len(feeds) : feeds[i] \in fetched_ok

\* C9: remove_feed of an unlisted URL fails and leaves the list as it was;
\* remove_feed of a listed URL removes it and keeps the other entries in
\* their order.
C9_RemoveFeed ==
    \A t \in Tasks :
        pc[t] = "rm_done" =>
            LET url == call[t].url
                before == call[t].feeds_before
            IN  IF url \notin Range(before)
                THEN ~call[t].ret.success /\ feeds = before
                ELSE /\ call[t].ret.success
                     /\ url \notin Range(feeds)
                     /\ feeds = SelectSeq(before, LAMBDA x : x # url)

\* the first of several entries has been removed
C9_Witness ==
    \E t \in Tasks :
        /\ pc[t] = "rm_done"
        /\ call[t].ret.success
        /\ Len(call[t].feeds_before) >= 2
        /\ call[t].feeds_before[1] = call[t].url

\* the steps of a call that found its domain due
PastGate == {"dl_fetch"} \cup RotationSteps

\* the steps at which the files of a rotation are partly written
MidRotation == RotationSteps \ {"dl_rotate"}

\* C10: two process() calls for one domain never interleave: no domain is
\* rotated twice for one date, no two calls are past the date gate of one
\* domain at once, and no call reads the snapshots of a domain while another
\* call's rotation of it is under way.

C10_NoInterleaving ==
    /\ \A d \in Domains, x \in Dates : rotations[d][x] <= 1
    /\ \A t1, t2 \in Tasks :
         (t1 # t2 /\ pc[t1] \in PastGate /\ pc[t2] \in PastGate) => Dom(t1) # Dom(t2)
    /\ \A t1, t2 \in Tasks :
         (t1 # t2 /\ pc[t1] = "dl_gate" /\ pc[t2] \in MidRotation) => Dom(t1) # Dom(t2)

\* a second call for a domain has returned, gated, while the handler whose
\* call rotated the domain that day has not finished
C10_Witness ==
    \E t1, t2 \in Tasks :
        /\ t1 # t2
        /\ pc[t1] = "notify"
        /\ call[t1].send # NoDate
        /\ pc[t2] = "dl_done"
        /\ Dom(t2) = Dom(t1)
        /\ call[t2].today = call[t1].send
        /\ call[t2].requests = 0

\* the list holds every URL an add_feed call has just added with success, and
\* none a remove_feed call has just removed with success
C11_Inv ==
    \A t \in Tasks :
        /\ (pc[t] = "af_done" /\ call[t].ret.success) => call[t].url \in Range(feeds)
        /\ (pc[t] = "rm_done" /\ call[t].ret.success) => call[t].url \notin Range(feeds)

\* every change of the list is one call's operation applied to the list as
\* it is persisted at that step, not to an older copy
C11_Step ==
    feeds' # feeds =>
        \E t \in Tasks :
            \/ /\ pc[t] = "dl_done"
               /\ pc'[t] = "af_done"
               /\ call[t].op = "add"
               /\ call[t].dl.success
               /\ call[t].url \notin Range(feeds)
               /\ feeds' = Append(feeds, call[t].url)
            \/ /\ pc[t] = "rm_check"
               /\ pc'[t] = "rm_done"
               /\ call[t].url \in Range(feeds)
               /\ feeds' = RemoveFirst(feeds, call[t].url)

\* C11: concurrent add_feed and remove_feed calls lose no update: every
\* change of the persisted list is one call's operation applied to the list
\* as it stands at that moment, so the list is always the result of the
\* calls in the order of their writes; a URL just added with success is
\* present and a URL just removed with success is absent.
C11_NoLostUpdate == []C11_Inv /\ [][C11_Step]_vars

\* an add_feed call has appended a second URL while the handler of the call
\* that added the first one has not finished
C11_Witness ==
    \E t1, t2 \in Tasks :
        /\ t1 # t2
        /\ pc[t1] = "notify"
        /\ pc[t2] = "af_done"
        /\ call[t2].ret.success
        /\ call[t2].url # call[t1].url
        /\ feeds = <<call[t1].url, call[t2].url>>

\* the URLs a well-formed document lists, in whatever namespace it is written
ListedUrls(xml) ==
    {Strip(t) : t \in {DecodeText(xml.locs[i]).text : i \in 1..Len(xml.locs)} \ {<<>>}}

\* the document the probed fetch of task t got from its top-level request
TopXml(t) == HttpGet(probe.web, call[t].url).xml

\* task t has just fetched, and probe holds the site it saw
JustFetched(t) == pc[t] = "dl_rotate" /\ probe.seen

\* the top-level document is an index, and every child it lists answers
\* with a urlset
IndexOfUrlsets(t) ==
    /\ Parses(TopXml(t))
    /\ TopXml(t).root = "sitemapindex"
    /\ \A child_url \in ListedUrls(TopXml(t)) :
         /\ HttpGet(probe.web, child_url).ok
         /\ Parses(HttpGet(probe.web, child_url).xml)
         /\ HttpGet(probe.web, child_url).xml.root = "urlset"

\* C12: fetching a sitemapindex whose child documents are all urlset
\* documents that fetch successfully yields exactly the union of the URLs
\* the children list.
C12_IndexYieldsUnion ==
    \A t \in Tasks :
        (JustFetched(t) /\ IndexOfUrlsets(t))
        => call[t].urls =
             UNION {ListedUrls(HttpGet(probe.web, child_url).xml) :
                      child_url \in ListedUrls(TopXml(t))}

\* the same for documents written in the sitemap namespace or in none
KnownNs(xml) == xml.ns \in {SitemapNs, "none"}

C12_UnionInKnownNamespaces ==
    \A t \in Tasks :
        (/\ JustFetched(t)
         /\ IndexOfUrlsets(t)
         /\ KnownNs(TopXml(t))
         /\ \A child_url \in ListedUrls(TopXml(t)) :
              KnownNs(HttpGet(probe.web, child_url).xml))
        => call[t].urls =
             UNION {ListedUrls(HttpGet(probe.web, child_url).xml) :
                      child_url \in ListedUrls(TopXml(t))}

\* an index of two urlsets in known namespaces has been fetched
C12_KnownWitness ==
    \E t \in Tasks :
        /\ JustFetched(t)
        /\ IndexOfUrlsets(t)
        /\ KnownNs(TopXml(t))
        /\ \A child_url \in ListedUrls(TopXml(t)) :
             KnownNs(HttpGet(probe.web, child_url).xml)
        /\ call[t].urls = {<<"a">>, <<"b">>}

\* task t's download has returned from a request made in a probed run
FetchReturned(t) == pc[t] = "dl_done" /\ call[t].requests = 1 /\ probe.seen

\* the URLs of the urlsets found on the levels 1..cap below a document that
\* is on the given level, every index above the cap being followed
RECURSIVE UrlsWithin(_, _, _, _)
UrlsWithin(web, xml, level, cap) ==
    IF level > cap \/ ~Parses(xml) THEN {}
    ELSE IF IsUrlset(xml) THEN LocTexts(xml)
    ELSE IF IsSitemapIndex(xml) THEN
        UNION { IF HttpGet(web, child_url).ok
                THEN UrlsWithin(web, HttpGet(web, child_url).xml, level + 1, cap)
                ELSE {}
                : child_url \in LocTexts(xml) }
    ELSE {}

\* a fetch whose top-level request succeeded stayed within cap levels: it
\* requested no document further down, returned the URLs found on those
\* levels and nothing else, and succeeded
WithinLevels(t, cap) ==
    (FetchReturned(t) /\ Fetched(probe.web, call[t].url))
    => /\ \A r \in Requested(probe.web, TopXml(t), 0) : r[2] <= cap
       /\ call[t].urls = UrlsWithin(probe.web, TopXml(t), 1, cap)
       /\ call[t].dl.success

\* C13 as stated: one fetch expands at most 4 levels of sitemap documents
\* counting the root as level 1; an entry leading to a document on a fifth or
\* deeper level is not requested and contributes no URLs, and the fetch
\* succeeds with the URLs found within the cap.
C13_FourLevels == \A t \in Tasks : WithinLevels(t, 4)

\* What the code does instead: it follows the indexes of 4 levels, so it
\* requests documents down to level 5 and a urlset on level 5 contributes its
\* URLs; only the entries of an index on level 5 are skipped.
C13_FiveLevels == \A t \in Tasks : WithinLevels(t, 5)

\* a fetch went down to level 5, took the URLs of a urlset there and did not
\* follow the index next to it
C13_FiveLevelsWitness ==
    \E t \in Tasks :
        /\ FetchReturned(t)
        /\ call[t].dl.success
        /\ \E r \in Requested(probe.web, TopXml(t), 0) :
             /\ r[2] = 5
             /\ IsSitemapIndex(HttpGet(probe.web, r[1]).xml)
             /\ LocTexts(HttpGet(probe.web, r[1]).xml) # {}
        /\ \E r \in Requested(probe.web, TopXml(t), 0) :
             /\ r[2] = 5
             /\ IsUrlset(HttpGet(probe.web, r[1]).xml)
             /\ LocTexts(HttpGet(probe.web, r[1]).xml) = call[t].urls
        /\ call[t].urls # {}

\* the document a request of the probed fetch got
XmlAt(r) == HttpGet(probe.web, r[1]).xml

\* the rotation of task t's call is in the files
Rotated(t) ==
    /\ current[Dom(t)] = File(call[t].xml)
    /\ dated[Dom(t)][call[t].today] = File(call[t].xml)
    /\ last_update[Dom(t)] = call[t].today
    /\ call[t].before.current.exists => latest[Dom(t)] = call[t].before.current

\* C14: a child request that fails, at any level, does not fail the
\* enclosing fetch: process() returns the fetch failure exactly when the
\* top-level request failed; otherwise it returns success and has rotated,
\* and the result contains what every requested document that answered
\* yields, failing siblings or not.
C14_ChildFailureTolerated ==
    \A t \in Tasks :
        FetchReturned(t) =>
            /\ call[t].dl = DownloadFailed <=> ~HttpGet(probe.web, call[t].url).ok
            /\ HttpGet(probe.web, call[t].url).ok =>
                 /\ call[t].dl.success
                 /\ call[t].xml = BuildUrlsetXml(call[t].urls)
                 /\ Rotated(t)
                 /\ \A r \in Requested(probe.web, TopXml(t), 0) :
                      HttpGet(probe.web, r[1]).ok =>
                          UrlsWithin(probe.web, XmlAt(r), r[2], MaxDepth + 2)
                              \subseteq call[t].urls

\* a child request on level 3 failed; the URLs its sibling lists and those a
\* urlset on level 2 lists are in the result of a call that succeeded
C14_Witness ==
    \E t \in Tasks :
        /\ FetchReturned(t)
        /\ call[t].dl.success
        /\ Rotated(t)
        /\ \E r1, r2, r3 \in Requested(probe.web, TopXml(t), 0) :
             /\ r1[2] = 3 /\ ~HttpGet(probe.web, r1[1]).ok
             /\ r2[2] = 3 /\ HttpGet(probe.web, r2[1]).ok /\ XmlAt(r2).root = "urlset"
             /\ r3[2] = 2 /\ HttpGet(probe.web, r3[1]).ok /\ XmlAt(r3).root = "urlset"
             /\ ListedUrls(XmlAt(r2)) # {}
             /\ ListedUrls(XmlAt(r3)) # {}
             /\ ListedUrls(XmlAt(r2)) # ListedUrls(XmlAt(r3))
             /\ call[t].urls = ListedUrls(XmlAt(r2)) \cup ListedUrls(XmlAt(r3))

\* the top-level document is no sitemap at all: not well-formed, or its root
\* is neither urlset nor sitemapindex
NoSitemap(xml) == ~Parses(xml) \/ xml.root \notin {"urlset", "sitemapindex"}

\* C15: unparseable XML, or XML whose root is neither urlset nor
\* sitemapindex, yields an empty URL set and never an error: a due process()
\* call that gets such a document returns success with an empty snapshot
\* installed as current, and compare_sitemaps reads such a text as the empty
\* set on either side.
C15_NoSitemapIsEmpty ==
    \A t \in Tasks :
        (/\ FetchReturned(t)
         /\ HttpGet(probe.web, call[t].url).ok
         /\ NoSitemap(TopXml(t)))
        => /\ call[t].dl.success
           /\ call[t].urls = {}
           /\ current[Dom(t)] = File(BuildUrlsetXml({}))
           /\ \A u \in FetchUrls :
                LET other == HttpGet(probe.web, u).xml
                IN  /\ CompareSitemaps(TopXml(t), other) = {}
                    /\ CompareSitemaps(other, TopXml(t)) = ExtractAllUrls(other)

\* the same for a document that is not well-formed or whose root's name does
\* not end in urlset or sitemapindex
C15_UnreadableIsEmpty ==
    \A t \in Tasks :
        (/\ FetchReturned(t)
         /\ HttpGet(probe.web, call[t].url).ok
         /\ ~Parses(TopXml(t)) \/ (~IsUrlset(TopXml(t)) /\ ~IsSitemapIndex(TopXml(t))))
        => /\ call[t].dl.success
           /\ call[t].urls = {}
           /\ current[Dom(t)] = File(BuildUrlsetXml({}))
           /\ \A u \in FetchUrls :
                LET other == HttpGet(probe.web, u).xml
                IN  /\ CompareSitemaps(TopXml(t), other) = {}
                    /\ CompareSitemaps(other, TopXml(t)) = ExtractAllUrls(other)

\* a text that is not well-formed, and an HTML page, have each been
\* installed as an empty snapshot over a snapshot that listed URLs
C15_MalformedWitness ==
    \E t \in Tasks :
        /\ FetchReturned(t)
        /\ call[t].dl.success
        /\ ~Parses(TopXml(t))
        /\ current[Dom(t)] = File(BuildUrlsetXml({}))
        /\ latest[Dom(t)].exists
        /\ ExtractAllUrls(latest[Dom(t)].text) # {}

C15_OtherRootWitness ==
    \E t \in Tasks :
        /\ FetchReturned(t)
        /\ call[t].dl.success
        /\ Parses(TopXml(t))
        /\ TopXml(t).root = "html"
        /\ TopXml(t).locs # <<>>
        /\ current[Dom(t)] = File(BuildUrlsetXml({}))

\* the URLs of a stored snapshot: those its text lists when it is a
\* well-formed urlset document, none otherwise
SnapshotUrls(xml) ==
    IF Parses(xml) /\ xml.root = "urlset" THEN ListedUrls(xml) ELSE {}

\* the snapshot texts at hand: the stored files and the serialisations the
\* calls hold
SnapshotTexts ==
    {f.text : f \in {g \in {current[d] : d \in Domains} \cup {latest[d] : d \in Domains}
                              \cup {dated[d][x] : d \in Domains, x \in Dates} : g.exists}}
    \cup {call[t].xml : t \in {u \in Tasks : call[u].http = "ok"}}

C16_Inv ==
    /\ \A cur, old \in SnapshotTexts :
         /\ CompareSitemaps(cur, old) = SnapshotUrls(cur) \ SnapshotUrls(old)
         /\ (SnapshotUrls(cur) = {<<"a">>, <<"b">>, <<"c">>}
             /\ SnapshotUrls(old) = {<<"a">>, <<"b">>})
            => CompareSitemaps(cur, old) = {<<"c">>}
         /\ CompareSitemaps(cur, cur) = {}
    /\ \A t \in Tasks :
         (pc[t] = "dl_write_current" /\ call[t].before.current.exists)
         => call[t].new_urls =
              SnapshotUrls(call[t].xml) \ SnapshotUrls(call[t].before.current.text)
    /\ \A t \in Tasks :
         (/\ pc[t] = "dl_done"
          /\ Gated(t)
          /\ call[t].dl.message = "already updated, not sent")
         => call[t].dl.new_urls =
              SnapshotUrls(current[Dom(t)].text) \ SnapshotUrls(latest[Dom(t)].text)

\* the call of compare_sitemaps at the date gate changes no file
C16_Step ==
    \A t \in Tasks :
        (pc[t] = "dl_gate" /\ pc'[t] = "dl_done") => UNCHANGED <<feeds, files>>

\* C16: compare_sitemaps(current, previous) returns exactly the URLs that
\* are in the current urlset and not in the previous one: {c} for {a,b,c}
\* against {a,b}, nothing for a snapshot against itself; and the call changes
\* no persisted state.
C16_CompareIsDifference == []C16_Inv /\ [][C16_Step]_vars

\* a snapshot {a,b,c} was compared with the snapshot {a,b} it replaces
C16_Witness ==
    \E t \in Tasks :
        /\ pc[t] = "dl_write_current"
        /\ call[t].before.current.exists
        /\ SnapshotUrls(call[t].xml) = {<<"a">>, <<"b">>, <<"c">>}
        /\ SnapshotUrls(call[t].before.current.text) = {<<"a">>, <<"b">>}
        /\ call[t].new_urls = {<<"c">>}

\* the steps of a remove_feed call of task t, from the handler's call to its
\* reply
RemoveStep(t) ==
    \/ pc[t] = "idle" /\ pc'[t] = "rm_check"
    \/ pc[t] = "rm_check" /\ pc'[t] = "rm_done"
    \/ pc[t] = "rm_done" /\ pc'[t] = "idle"

\* C17: remove_feed changes only the persisted feed list: no step of the
\* call changes the date marker, the current snapshot, the previous snapshot
\* or an export copy of any domain, the removed feed's domain included, and
\* nothing else changes them between its steps.
C17_RemoveTouchesNoFile ==
    [][\A t \in Tasks :
         (RemoveStep(t) \/ pc[t] \in {"rm_check", "rm_done"}) => UNCHANGED files]_vars

\* a feed has been removed whose domain has a date marker, both snapshots
\* and an export copy
C17_Witness ==
    \E t \in Tasks :
        /\ pc[t] = "rm_done"
        /\ call[t].ret.success
        /\ call[t].url \notin Range(feeds)
        /\ last_update[Dom(t)] # NoDate
        /\ current[Dom(t)].exists
        /\ latest[Dom(t)].exists
        /\ \E x \in Dates : dated[Dom(t)][x].exists

\* task t is in an add_feed call for a URL that was listed when it read the
\* registry
AddingKnown(t) ==
    /\ call[t].op = "add"
    /\ pc[t] \in {"dl_gate", "dl_fetch", "dl_done", "af_done"} \cup RotationSteps
    /\ call[t].url \in Range(call[t].feeds)

\* C18: add_feed(url) for a URL already in the registry still performs one
\* process(url) call, and leaves the persisted list as it was (same entries,
\* same order) whether that call succeeds or fails; its result is that of
\* the process() call.
C18_KnownFeedRechecked ==
    \A t \in Tasks :
        AddingKnown(t) =>
            /\ feeds = call[t].feeds_before
            /\ pc[t] \in {"dl_done", "af_done"} =>
                 /\ call[t].today \in Dates
                 /\ call[t].dl # NoOutcome
                 /\ Gated(t) <=> call[t].requests = 0
            /\ pc[t] = "af_done" =>
                 /\ call[t].ret.success = call[t].dl.success
                 /\ call[t].dl.success => call[t].ret.new_urls = call[t].dl.new_urls

\* add_feed of the first of two listed URLs has returned the failure of its
\* process() call, which made a request
C18_Witness ==
    \E t \in Tasks :
        /\ pc[t] = "af_done"
        /\ AddingKnown(t)
        /\ call[t].requests = 1
        /\ ~call[t].ret.success
        /\ Len(feeds) = 2
        /\ feeds[1] = call[t].url

\* the task is inside "while True"
InLoop(t) == Scheduler(t) /\ pc[t] \notin {"s_start", "s_returned"}

\* the task waits on one of its two timers
Waiting(t) == pc[t] \in {"s_sleep3600", "s_sleep60"}

\* the scheduled_task of this kind never leaves its loop
Alive(kinds) == \A t \in Tasks : sched[t].kind \in kinds => pc[t] # "s_dead"

\* a step of the scheduled_task of this kind: a pass starts when the task
\* starts or after one of the two waits, a pass that ends normally is followed
\* by the hourly wait, a pass that raised by the back-off
Cadence(kinds) ==
    \A t \in Tasks :
        sched[t].kind \in kinds =>
            /\ (pc'[t] = "s_pass" /\ pc[t] # "s_pass") =>
                   (pc[t] = "s_start" \/ Waiting(t))
            /\ (pc[t] = "s_summary" /\ pc'[t] # "s_summary") =>
                   pc'[t] \in {"s_sleep3600", "s_except"}
            /\ (pc[t] = "s_except" /\ pc'[t] # "s_except") => pc'[t] = "s_sleep60"
            /\ (pc'[t] = "s_sleep3600") => pc[t] \in {"s_sleep3600", "s_summary"}

\* C19: the periodic scheduler loop never terminates and never spins: after a
\* pass that completes normally it waits the hourly interval and starts
\* another pass, after a pass that raises it waits the one-minute back-off and
\* starts another pass; for the Telegram and for the Discord scheduled_task.
C19_SchedulerKeepsRunning ==
    /\ []Alive(SchedulerKinds)
    /\ [][Cadence(SchedulerKinds)]_vars
    /\ \A t \in Tasks : (InLoop(t) /\ Waiting(t)) ~> (pc[t] = "s_pass")
    /\ \A t \in Tasks : (InLoop(t) /\ pc[t] = "s_except") ~> (pc[t] = "s_sleep60")
    /\ \A t \in Tasks : InLoop(t) ~> Waiting(t)

\* What holds of the Telegram task alone, whose module binds asyncio.
C19_TelegramKeepsRunning ==
    /\ []Alive({"telegram"})
    /\ [][Cadence({"telegram"})]_vars
    /\ \A t \in Tasks :
           (sched[t].kind = "telegram" /\ InLoop(t) /\ Waiting(t)) ~> (pc[t] = "s_pass")
    /\ \A t \in Tasks :
           (sched[t].kind = "telegram" /\ InLoop(t) /\ pc[t] = "s_except")
               ~> (pc[t] = "s_sleep60")
    /\ \A t \in Tasks : (sched[t].kind = "telegram" /\ InLoop(t)) ~> Waiting(t)

\* the Telegram task has started a pass after its back-off, with a feed to walk
C19_TelegramWitness ==
    \E t \in Tasks :
        /\ sched[t].kind = "telegram"
        /\ pc[t] = "s_feed"
        /\ Len(sched[t].feeds) > 0
        /\ today > 1

\* the Discord task has left its loop after a pass over a listed feed
C19_DiscordDead ==
    \E t \in Tasks :
        /\ sched[t].kind = "discord"
        /\ pc[t] = "s_dead"
        /\ Len(feeds) > 0

\* the generation task t's call found at the date gate is complete: current,
\* previous and the export copy of the call's date all exist
CompleteAtGate(t) ==
    /\ call[t].before.dated[call[t].today].exists
    /\ call[t].before.current.exists
    /\ call[t].before.latest.exists

\* C20: a process() call that is not due returns, when the generation is
\* incomplete, success equal to whether that date's export copy exists, the
\* 'already updated today' message and no new URLs; when the generation is
\* complete, success and new_urls = diff(current, previous).
C20_NotDueOutcome ==
    \A t \in Tasks :
        (pc[t] = "dl_done" /\ Gated(t)) =>
            IF CompleteAtGate(t)
            THEN /\ call[t].dl.success
                 /\ call[t].dl.new_urls =
                      SnapshotUrls(call[t].before.current.text)
                          \ SnapshotUrls(call[t].before.latest.text)
            ELSE /\ call[t].dl.success = call[t].before.dated[call[t].today].exists
                 /\ call[t].dl.message = "already updated"
                 /\ call[t].dl.new_urls = {}

\* a call that was not due has returned a failure: both snapshots exist and
\* differ, the export copy of the date is gone
C20_Witness ==
    \E t \in Tasks :
        /\ pc[t] = "dl_done"
        /\ Gated(t)
        /\ ~CompleteAtGate(t)
        /\ ~call[t].dl.success
        /\ call[t].before.current.exists
        /\ call[t].before.latest.exists
        /\ SnapshotUrls(call[t].before.current.text)
             \ SnapshotUrls(call[t].before.latest.text) # {}

\* the gated call of task t has returned and left the domain's files as it
\* found them
C21_Inv ==
    \A t \in Tasks :
        (pc[t] = "dl_done" /\ Gated(t)) =>
            /\ call[t].requests = 0
            /\ Store(Dom(t)) = call[t].before

\* the step of a gated call writes none of the domain's four files
C21_Step ==
    \A t \in Tasks :
        (pc[t] = "dl_gate" /\ AlreadyUpdated(last_update[Dom(t)], today)) =>
            LET d == Dom(t)
            IN  /\ last_update'[d] = last_update[d]
                /\ current'[d] = current[d]
                /\ latest'[d] = latest[d]
                /\ dated'[d] = dated[d]

\* C21: a process() call that is gated (last_fetch_date equals today) changes
\* no persisted state of the domain: last_fetch_date, current snapshot,
\* previous snapshot and export copy are the same after the call as before
\* it, in the complete-generation and in the incomplete-generation branch.
C21_GatedCallChangesNothing == []C21_Inv /\ [][C21_Step]_vars

\* a gated call has returned from the incomplete branch: the export copy of
\* its date was gone, the snapshot is there
C21_Witness ==
    \E t \in Tasks :
        /\ pc[t] = "dl_done"
        /\ Gated(t)
        /\ ~call[t].before.dated[call[t].today].exists
        /\ call[t].before.current.exists
        /\ ~call[t].dl.success

\* a gated call has returned from the complete branch
C21_CompleteWitness ==
    \E t \in Tasks :
        /\ pc[t] = "dl_done"
        /\ Gated(t)
        /\ CompleteAtGate(t)
        /\ call[t].dl.success

\* C22: a scheduler pass never adds a URL to the registry: when a user's
\* remove_feed(url) runs between the scheduler's get_feeds() and its
\* add_feed(url) for that URL, url is still absent when add_feed has returned.
C22_PassNeverAdds ==
    \A t \in Tasks :
        (Scheduler(t) /\ pc[t] = "af_done") => feeds = call[t].feeds_before

\* What the code does instead: the only URL a pass appends is the one it is
\* walking, which was listed when the pass read the registry and is no longer.
C22_PassOnlyRelists ==
    \A t \in Tasks :
        (Scheduler(t) /\ pc[t] = "af_done" /\ feeds # call[t].feeds_before) =>
            /\ feeds = Append(call[t].feeds_before, call[t].url)
            /\ call[t].url \notin Range(call[t].feeds_before)
            /\ sched[t].i <= Len(sched[t].feeds)
            /\ sched[t].feeds[sched[t].i] = call[t].url

\* a pass has put back a URL that a user removed while the pass was sending
C22_RelistedWitness ==
    \E t \in Tasks :
        /\ Scheduler(t)
        /\ pc[t] = "af_done"
        /\ call[t].url \notin Range(call[t].feeds_before)
        /\ call[t].url \in Range(feeds)

\* the outcome names the export copy of the call's date, and the copy exists
NamesExport(t, outcome) ==
    /\ outcome.dated_file # NoDate
    /\ outcome.dated_file = call[t].today
    /\ dated[Dom(t)][outcome.dated_file].exists

\* C23: whenever process() or add_feed() returns success=true, the returned
\* export file is not null and names today's export copy, which exists on
\* disk at the moment of return; whenever add_feed() returns success=false,
\* the returned export file is null and new_urls is empty.
C23_ReturnedExport ==
    \A t \in Tasks :
        /\ (pc[t] = "dl_done" /\ call[t].dl.success) => NamesExport(t, call[t].dl)
        /\ (pc[t] = "af_done" /\ call[t].ret.success) => NamesExport(t, call[t].ret)
        /\ (pc[t] = "af_done" /\ ~call[t].ret.success) =>
               /\ call[t].ret.dated_file = NoDate
               /\ call[t].ret.new_urls = {}

\* add_feed has returned success with new URLs and the export copy of a fetch
C23_Witness ==
    \E t \in Tasks :
        /\ pc[t] = "af_done"
        /\ call[t].ret.success
        /\ call[t].requests = 1
        /\ call[t].ret.new_urls # {}

\* add_feed has returned the failure of a gated call whose export copy was gone
C23_FailureWitness ==
    \E t \in Tasks :
        /\ pc[t] = "af_done"
        /\ ~call[t].ret.success
        /\ call[t].dl.dated_file # NoDate

\* add_feed has returned success from a gated call, with the export copy kept
C23_GatedWitness ==
    \E t \in Tasks :
        /\ pc[t] = "af_done"
        /\ call[t].ret.success
        /\ Gated(t)

\* characters that are markup when they stand in character data as they are
Significant == {"&", "<"}

\* the URL can be written between <loc> and </loc> as it is and read back
Plain(u) == u # <<>> /\ \A i \in 1..Len(u) : u[i] \notin Significant

\* the loc entries of the text are in strictly ascending order
Ascending(xml) ==
    \A i, j \in 1..Len(xml.locs) : i < j => StrLess(xml.locs[i], xml.locs[j])

\* C24: the stored serialization round-trips: for every URL set S a fetch can
\* produce (URLs that contain '&' or '<' included), parsing
\* _build_urlset_xml(S) with _extract_all_urls yields exactly S; the loc
\* entries are emitted in sorted order.
C24_RoundTrip ==
    \A t \in Tasks :
        pc[t] = "dl_rotate" =>
            /\ ExtractAllUrls(call[t].xml) = call[t].urls
            /\ Ascending(call[t].xml)

\* What the code does instead: the entries are always sorted; the set is read
\* back when every URL in it is non-empty and free of '&' and '<', and is
\* read back as the empty set when one of them contains '&' or '<'.
C24_RoundTripOfPlainUrls ==
    \A t \in Tasks :
        pc[t] = "dl_rotate" =>
            /\ Ascending(call[t].xml)
            /\ call[t].xml = BuildUrlsetXml(call[t].urls)
            /\ (\A u \in call[t].urls : Plain(u)) =>
                   ExtractAllUrls(call[t].xml) = call[t].urls
            /\ (\E u \in call[t].urls : \E i \in 1..Len(u) : u[i] \in Significant) =>
                   ExtractAllUrls(call[t].xml) = {}

\* a fetch produced three plain URLs from entries that were not in order
C24_PlainWitness ==
    \E t \in Tasks :
        /\ pc[t] = "dl_rotate"
        /\ Cardinality(call[t].urls) = 3
        /\ \A u \in call[t].urls : Plain(u)
        /\ probe.seen
        /\ ~Ascending(TopXml(t))

\* a fetch produced a URL with '&', and one with '<', whose text reads back empty
C24_LostWitness ==
    \E t \in Tasks :
        /\ pc[t] = "dl_rotate"
        /\ \E u \in call[t].urls : \E i \in 1..Len(u) : u[i] = "<"
        /\ ExtractAllUrls(call[t].xml) = {}

\* b + b^2 + ... + b^k
RECURSIVE Geometric(_, _)
Geometric(b, k) == IF k = 0 THEN 0 ELSE b * (1 + Geometric(b, k - 1))

\* the longest list of entries a document of the site has
MostEntries(web) ==
    LET lens == {Len(web[u].xml.locs) : u \in DOMAIN web}
    IN  CHOOSE n \in lens : \A o \in lens : o <= n

\* the indexes of the depths 0..MaxDepth are followed, each entry once
RequestBound(web) == Geometric(MostEntries(web), MaxDepth + 1)

\* the feed's own document is among the documents the fetch asked for below it
Cyclic(t) == \E r \in Requested(probe.web, TopXml(t), 0) : r[1] \in FeedUrls

\* C25: every fetch terminates even when sitemap-index documents reference
\* themselves or each other in a cycle: the recursion stops at the depth cap,
\* so the call returns after a bounded number of HTTP requests, and the URLs
\* of urlset documents reachable within the cap are still returned.
C25_CyclesTerminate ==
    \A t \in Tasks :
        (FetchReturned(t) /\ Fetched(probe.web, call[t].url)) =>
            /\ NumRequests(probe.web, TopXml(t), 0) <= RequestBound(probe.web)
            /\ \A r \in Requested(probe.web, TopXml(t), 0) : r[2] <= MaxDepth + 2
            /\ call[t].dl.success
            /\ call[t].urls = UrlsWithin(probe.web, TopXml(t), 1, MaxDepth + 2)

\* a fetch of two indexes that list each other has returned with the URLs of
\* the urlset one of them lists, after more requests than there are documents
C25_Witness ==
    \E t \in Tasks :
        /\ FetchReturned(t)
        /\ Cyclic(t)
        /\ call[t].dl.success
        /\ call[t].urls # {}
        /\ NumRequests(probe.web, TopXml(t), 0) > Cardinality(DOMAIN probe.web)

\* a fetch of an index that lists itself twice has made as many requests as
\* the depth limit allows
C25_BoundWitness ==
    \E t \in Tasks :
        /\ FetchReturned(t)
        /\ Cyclic(t)
        /\ NumRequests(probe.web, TopXml(t), 0) = RequestBound(probe.web)

====
